---------------------------- MODULE Spec2Model ----------------------------
(***************************************************************************)
(* The ABI dispatcher generator of the Fe compiler's Yul backend           *)
(* (src/compiler/src/yul/runtime/abi.rs): switch, case,                    *)
(* function_call_case, selector_literal, abi_type, abi_type_base and       *)
(* parameter_expressions.                                                  *)
(*                                                                         *)
(* The functions are pure.  A behaviour is one call: Init draws the call   *)
(* (the function and its arguments) from bounded sets, and the action of   *)
(* that function computes its return value as the code does.               *)
(*                                                                         *)
(* A Rust String is a sequence of one-character strings, so that           *)
(* formatting, joining, hex encoding and hashing are computed and not      *)
(* assumed.  Option<T> is a sequence of length 0 (None) or 1 (Some).       *)
(***************************************************************************)
EXTENDS Integers, Sequences, FiniteSets, TLC

VARIABLES call, result

vars == <<call, result>>

(***************************************************************************)
(* Bounds of the model.                                                    *)
(***************************************************************************)
\* longest parameter list of a function
MaxParams == 2
\* longest interface list handed to switch
MaxInterface == 2

(***************************************************************************)
(* Strings.                                                                *)
(***************************************************************************)
Digit == <<"0", "1", "2", "3", "4", "5", "6", "7", "8", "9">>

Lower == <<"a", "b", "c", "d", "e", "f", "g", "h", "i", "j", "k", "l", "m",
           "n", "o", "p", "q", "r", "s", "t", "u", "v", "w", "x", "y", "z">>

HexDigit == <<"0", "1", "2", "3", "4", "5", "6", "7", "8", "9",
              "a", "b", "c", "d", "e", "f">>

\* the ASCII code of a character (String::as_bytes, one character at a time)
Ord(c) ==
    IF \E i \in 1..10 : Digit[i] = c THEN 47 + (CHOOSE i \in 1..10 : Digit[i] = c)
    ELSE IF \E i \in 1..26 : Lower[i] = c THEN 96 + (CHOOSE i \in 1..26 : Lower[i] = c)
    ELSE CASE c = "(" -> 40
           [] c = ")" -> 41
           [] c = "," -> 44
           [] c = "[" -> 91
           [] c = "]" -> 93
           [] c = "_" -> 95

as_bytes(s) == [i \in 1..Len(s) |-> Ord(s[i])]

\* the decimal rendering of an unsigned integer (Display for usize)
RECURSIVE to_string(_)
to_string(n) ==
    IF n < 10 THEN <<Digit[n + 1]>>
    ELSE to_string(n \div 10) \o <<Digit[(n % 10) + 1]>>

\* hex::encode: two lower-case hexadecimal digits per byte, high nibble first
RECURSIVE hex_encode(_)
hex_encode(bytes) ==
    IF bytes = <<>> THEN <<>>
    ELSE <<HexDigit[(Head(bytes) \div 16) + 1], HexDigit[(Head(bytes) % 16) + 1]>>
         \o hex_encode(Tail(bytes))

\* Vec<String>::join(sep)
RECURSIVE join(_, _)
join(strings, sep) ==
    IF strings = <<>> THEN <<>>
    ELSE IF Len(strings) = 1 THEN strings[1]
    ELSE strings[1] \o sep \o join(Tail(strings), sep)

(***************************************************************************)
(* Keccak-256 (tiny_keccak's Keccak::v256), on lanes held as the sets of   *)
(* their one bits: lane (x, y) is A[x + 5*y + 1], bit z of a lane is the   *)
(* number z in 0..63.                                                      *)
(***************************************************************************)
Xor(S, T) == (S \ T) \cup (T \ S)

\* rotate a lane left by r bits
Rot(S, r) == {(z + r) % 64 : z \in S}

\* the rate of Keccak-256 in bytes: (1600 - 2*256) / 8
RATE == 136

\* the round constants, as the sets of their one bits
RC == << {0}, {1, 7, 15}, {1, 3, 7, 15, 63}, {15, 31, 63}, {0, 1, 3, 7, 15},
         {0, 31}, {0, 7, 15, 31, 63}, {0, 3, 15, 63}, {1, 3, 7}, {3, 7},
         {0, 3, 15, 31}, {1, 3, 31}, {0, 1, 3, 7, 15, 31}, {0, 1, 3, 7, 63},
         {0, 3, 7, 15, 63}, {0, 1, 15, 63}, {1, 15, 63}, {7, 63}, {1, 3, 15},
         {1, 3, 31, 63}, {0, 7, 15, 31, 63}, {7, 15, 63}, {0, 31},
         {3, 15, 31, 63} >>

\* the rotation offsets; RHO[x + 5*y + 1] is the offset of lane (x, y)
RHO == << 0, 1, 62, 28, 27,  36, 44, 6, 55, 20,  3, 10, 43, 25, 39,
          41, 45, 15, 21, 8,  18, 2, 61, 56, 14 >>

\* SubSeq(f, 1, 25) is f, held as a sequence of 25 evaluated lanes
Theta(A) ==
    LET Col(x) == Xor(Xor(Xor(Xor(A[x], A[x + 5]), A[x + 10]), A[x + 15]), A[x + 20])
        C == <<Col(1), Col(2), Col(3), Col(4), Col(5)>>
        D == <<Xor(C[5], Rot(C[2], 1)), Xor(C[1], Rot(C[3], 1)),
               Xor(C[2], Rot(C[4], 1)), Xor(C[3], Rot(C[5], 1)),
               Xor(C[4], Rot(C[1], 1))>>
    IN  SubSeq([l \in 1..25 |-> Xor(A[l], D[((l - 1) % 5) + 1])], 1, 25)

\* B[y, 2x + 3y] = rot(A[x, y], r[x, y]): lane (X, Y) of the result comes
\* from the lane with x = (X + 3Y) % 5 and y = X
RhoPi(A) ==
    SubSeq([l \in 1..25 |->
               LET X == (l - 1) % 5
                   Y == (l - 1) \div 5
                   s == ((X + 3 * Y) % 5) + 5 * X + 1
               IN  Rot(A[s], RHO[s])], 1, 25)

\* A[x, y] = B[x, y] xor (not B[x + 1, y] and B[x + 2, y])
Chi(B) ==
    SubSeq([l \in 1..25 |->
               LET x == (l - 1) % 5
                   row == l - 1 - x
               IN  Xor(B[l], B[row + ((x + 2) % 5) + 1] \ B[row + ((x + 1) % 5) + 1])],
           1, 25)

Iota(A, i) == [A EXCEPT ![1] = Xor(@, RC[i])]

\* rounds i..24 of Keccak-f[1600]; both branches of the inner IF are the
\* same state, the comparison only makes the round's result a value
RECURSIVE KeccakF(_, _)
KeccakF(A, i) ==
    IF i > 24 THEN A
    ELSE LET B == Iota(Chi(RhoPi(Theta(A))), i)
         IN  IF B = A THEN KeccakF(A, i + 1) ELSE KeccakF(B, i + 1)

Bits(byte) == {k \in 0..7 : (byte \div (2 ^ k)) % 2 = 1}

\* Keccak padding: 0x01, zeros, 0x80 in the last byte of the block
\* the padding of SHA3-256 (domain byte 0x06), which Keccak::v256 does not use
PadSha3(msg) ==
    LET q == RATE - (Len(msg) % RATE)
    IN  msg \o [j \in 1..q |-> IF q = 1 THEN 134
                               ELSE IF j = 1 THEN 6
                               ELSE IF j = q THEN 128 ELSE 0]

Pad(msg) ==
    LET q == RATE - (Len(msg) % RATE)
    IN  msg \o [j \in 1..q |-> IF q = 1 THEN 129
                               ELSE IF j = 1 THEN 1
                               ELSE IF j = q THEN 128 ELSE 0]

\* the lanes of the first block of p: lane l holds bytes 8(l-1)+1 .. 8l,
\* least significant byte first
Block(p) ==
    SubSeq([l \in 1..25 |->
               IF 8 * l > RATE THEN {}
               ELSE UNION {{8 * t + k : k \in Bits(p[8 * (l - 1) + t + 1])} : t \in 0..7}],
           1, 25)

RECURSIVE Absorb(_, _)
Absorb(A, p) ==
    IF p = <<>> THEN A
    ELSE LET blk == Block(p)
         IN  Absorb(KeccakF(SubSeq([l \in 1..25 |-> Xor(A[l], blk[l])], 1, 25), 1),
                    SubSeq(p, RATE + 1, Len(p)))

\* byte j (1-based) of the sponge's output
SqueezeByte(A, j) ==
    LET lane == A[((j - 1) \div 8) + 1]
        t == (j - 1) % 8
        RECURSIVE Sum(_)
        Sum(k) == IF k > 7 THEN 0
                  ELSE (IF 8 * t + k \in lane THEN 2 ^ k ELSE 0) + Sum(k + 1)
    IN  Sum(0)

\* update(bytes) then finalize into a buffer of len bytes (len <= RATE)
Keccak(bytes, len) ==
    LET A == Absorb([l \in 1..25 |-> {}], Pad(bytes))
    IN  [j \in 1..len |-> SqueezeByte(A, j)]


(***************************************************************************)
(* The type vocabulary (crate::yul::namespace::types): Base, Array and     *)
(* FixedSize, and their byte widths.                                       *)
(***************************************************************************)
Bases == {"U256", "Address", "Byte"}

\* FixedSize::Base(base)
BaseType(base) == [kind |-> "Base", base |-> base]

\* FixedSize::Array(Array { dimension, inner })
ArrayType(dimension, inner) == [kind |-> "Array", dimension |-> dimension, inner |-> inner]

\* Base::size: the byte width of a scalar
base_size(base) ==
    CASE base = "U256" -> 32
      [] base = "Address" -> 32
      [] base = "Byte" -> 1

\* FixedSize::size: the byte width of a fixed-size type
size(typ) ==
    IF typ.kind = "Base" THEN base_size(typ.base)
    ELSE typ.dimension * base_size(typ.inner)

None == <<>>

Some(v) == <<v>>

(***************************************************************************)
(* The Yul syntax tree built by yultsur's macros.                          *)
(***************************************************************************)
\* literal! {(s)}
Literal(s) == [literal |-> s]

\* literal_expression! {(v)}: the literal v.to_string(), as an expression
LiteralExpression(s) == [expr |-> "Literal", literal |-> s]

IdentifierExpression(id) == [expr |-> "Identifier", identifier |-> id]

\* expression! { id(arguments...) }
FunctionCall(id, arguments) ==
    [expr |-> "FunctionCall", identifier |-> id, arguments |-> arguments]

\* a statement that is an expression
ExpressionStatement(e) == [stmt |-> "Expression", expression |-> e]

\* (let id := e)
VariableDeclaration(id, e) ==
    [stmt |-> "VariableDeclaration", identifier |-> id, expression |-> e]

\* case! { case [literal] { block... } }
YulCase(literal, block) == [literal |-> literal, block |-> block]

\* switch! { switch (e) [cases...] }
YulSwitch(e, cases) == [stmt |-> "Switch", expression |-> e, cases |-> cases]

callval == <<"c", "a", "l", "l", "v", "a", "l">>

calltomem == <<"c", "a", "l", "l", "t", "o", "m", "e", "m">>

mstore == <<"m", "s", "t", "o", "r", "e">>

return == <<"r", "e", "t", "u", "r", "n">>

return_val == <<"r", "e", "t", "u", "r", "n", "_", "v", "a", "l">>

return_ptr == <<"r", "e", "t", "u", "r", "n", "_", "p", "t", "r">>

(***************************************************************************)
(* Result<T, CompileError>.                                                *)
(***************************************************************************)
Ok(v) == [tag |-> "Ok", val |-> v]

\* Err(CompileError::static_str(msg))
Err(msg) == [tag |-> "Err", error |-> msg]

(***************************************************************************)
(* The inputs of the model.                                                *)
(***************************************************************************)
foo == <<"f", "o", "o">>

bar == <<"b", "a", "r">>

transfer == <<"t", "r", "a", "n", "s", "f", "e", "r">>

many_msg_babbage ==
    <<"m", "a", "n", "y", "_", "m", "s", "g", "_", "b", "a", "b", "b", "a", "g", "e">>

\* the function names of the direct calls
Names == {foo, bar}

\* the dimensions of the arrays
Dimensions == {1, 4, 32}

Types ==
    {BaseType(b) : b \in Bases} \cup {ArrayType(d, b) : d \in Dimensions, b \in Bases}

\* the types of the parameter lists: every scalar, bytes32 and uint256[4]
ParamTypes ==
    {BaseType(b) : b \in Bases} \cup {ArrayType(32, "Byte"), ArrayType(4, "U256")}

ParamLists == UNION {[1..n -> ParamTypes] : n \in 0..MaxParams}

Returns == {None} \cup {Some(t) : t \in Types}

\* ContractDef::Function { params, returns }
Function(params, returns) == [def |-> "Function", params |-> params, returns |-> returns]

\* the names a definition table may bind, and an interface may list
TableNames == {foo, transfer, many_msg_babbage}

\* what a definition table may bind a name to: the definitions that are not
\* functions, and a function of each shape of return type
TableDefs ==
    { [def |-> "Map"], [def |-> "Event"],
      Function(<<>>, None),
      Function(<<BaseType("Address"), BaseType("U256")>>, Some(BaseType("U256"))),
      Function(<<ArrayType(1, "Byte")>>, Some(ArrayType(4, "U256"))) }

\* HashMap<String, ContractDef>: a function on the names it binds
Tables == UNION {[D -> TableDefs] : D \in SUBSET TableNames}

Interfaces == UNION {[1..n -> TableNames] : n \in 0..MaxInterface}

(***************************************************************************)
(* abi.rs, leaves first.                                                   *)
(***************************************************************************)
abi_type_base(typ) ==
    CASE typ = "U256" -> <<"u", "i", "n", "t", "2", "5", "6">>
      [] typ = "Address" -> <<"a", "d", "d", "r", "e", "s", "s">>
      [] typ = "Byte" -> <<"b", "y", "t", "e">>

\* abi_type without its early return for arrays of bytes
abi_type_brackets(typ) ==
    IF typ.kind = "Base" THEN abi_type_base(typ.base)
    ELSE abi_type_base(typ.inner) \o <<"[">> \o to_string(typ.dimension) \o <<"]">>

abi_type(typ) ==
    IF typ.kind = "Base" THEN abi_type_base(typ.base)
    ELSE IF typ.inner = "Byte"
         THEN <<"b", "y", "t", "e", "s">> \o to_string(typ.dimension)
         ELSE abi_type_base(typ.inner) \o <<"[">> \o to_string(typ.dimension) \o <<"]">>

\* the local `signature` of selector_literal: format!("{}({})", name, types.join(","))
signature(name, params) ==
    name \o <<"(">>
         \o join([i \in 1..Len(params) |-> abi_type(params[i])], <<",">>)
         \o <<")">>

\* the signatures of the model's inputs
Signatures ==
    {signature(n, p) : n \in Names, p \in ParamLists}
        \cup {signature(n, d.params) :
                 n \in TableNames, d \in {t \in TableDefs : t.def = "Function"}}

\* their 4-byte digests, computed once
Digests == [s \in Signatures |-> Keccak(as_bytes(s), 4)]

\* keccak.update(signature.as_bytes()); keccak.finalize(&mut selector), selector = [0u8; 4]
selector_bytes(sig) ==
    IF sig \in DOMAIN Digests THEN Digests[sig] ELSE Keccak(as_bytes(sig), 4)

selector_literal(name, params) ==
    Literal(<<"0", "x">> \o hex_encode(selector_bytes(signature(name, params))))

\* the loop of parameter_expressions, at parameter `params[1]` with `ptr`
\* and the expressions pushed so far
RECURSIVE parameter_loop(_, _, _)
parameter_loop(params, ptr, expressions) ==
    IF params = <<>> THEN expressions
    ELSE LET param == Head(params)
             start == LiteralExpression(to_string(ptr))
             sz == LiteralExpression(to_string(size(param)))
         IN  parameter_loop(Tail(params), ptr + size(param),
                 Append(expressions,
                        IF param.kind = "Base"
                        THEN FunctionCall(callval, <<start, sz>>)
                        ELSE FunctionCall(calltomem, <<start, sz>>)))

\* parameter_expressions with `ptr += 32`: every parameter taken to be one
\* word wide, as the doc comment of function_call_case assumes
parameter_expressions_words(params) ==
    [i \in 1..Len(params) |->
        FunctionCall(IF params[i].kind = "Base" THEN callval ELSE calltomem,
                     << LiteralExpression(to_string(4 + (32 * (i - 1)))),
                        LiteralExpression(to_string(size(params[i]))) >>)]

parameter_expressions(params) == parameter_loop(params, 4, <<>>)

\* function_call_case with the scalar return taken to be one word wide, as
\* its doc comment assumes
function_call_case_word(name, params, returns) ==
    LET selector == selector_literal(name, params)
        arguments == parameter_expressions(params)
    IN  IF returns # None
        THEN IF returns[1].kind = "Array"
             THEN YulCase(selector,
                    << VariableDeclaration(return_ptr, FunctionCall(name, arguments)),
                       ExpressionStatement(FunctionCall(return,
                           << IdentifierExpression(return_ptr),
                              LiteralExpression(to_string(size(returns[1]))) >>)) >>)
             ELSE YulCase(selector,
                    << VariableDeclaration(return_val, FunctionCall(name, arguments)),
                       ExpressionStatement(FunctionCall(mstore,
                           <<LiteralExpression(<<"0">>), IdentifierExpression(return_val)>>)),
                       ExpressionStatement(FunctionCall(return,
                           <<LiteralExpression(<<"0">>), LiteralExpression(<<"3", "2">>)>>)) >>)
        ELSE YulCase(selector, << ExpressionStatement(FunctionCall(name, arguments)) >>)

\* function_call_case without the FixedSize::Array arm: every return value is
\* stored at offset 0 and returned from there
function_call_case_stored(name, params, returns) ==
    LET selector == selector_literal(name, params)
        arguments == parameter_expressions(params)
    IN  IF returns # None
        THEN YulCase(selector,
               << VariableDeclaration(return_val, FunctionCall(name, arguments)),
                  ExpressionStatement(FunctionCall(mstore,
                      <<LiteralExpression(<<"0">>), IdentifierExpression(return_val)>>)),
                  ExpressionStatement(FunctionCall(return,
                      << LiteralExpression(<<"0">>),
                         LiteralExpression(to_string(size(returns[1]))) >>)) >>)
        ELSE YulCase(selector, << ExpressionStatement(FunctionCall(name, arguments)) >>)

\* function_call_case without the `else` arm: a function that returns nothing
\* is handled as one that returns a word
function_call_case_always_returns(name, params, returns) ==
    LET selector == selector_literal(name, params)
        arguments == parameter_expressions(params)
    IN  IF returns # None /\ returns[1].kind = "Array"
        THEN YulCase(selector,
               << VariableDeclaration(return_ptr, FunctionCall(name, arguments)),
                  ExpressionStatement(FunctionCall(return,
                      << IdentifierExpression(return_ptr),
                         LiteralExpression(to_string(size(returns[1]))) >>)) >>)
        ELSE YulCase(selector,
               << VariableDeclaration(return_val, FunctionCall(name, arguments)),
                  ExpressionStatement(FunctionCall(mstore,
                      <<LiteralExpression(<<"0">>), IdentifierExpression(return_val)>>)),
                  ExpressionStatement(FunctionCall(return,
                      << LiteralExpression(<<"0">>),
                         LiteralExpression(IF returns = None THEN <<"3", "2">>
                                           ELSE to_string(size(returns[1]))) >>)) >>)

function_call_case(name, params, returns) ==
    LET selector == selector_literal(name, params)
        arguments == parameter_expressions(params)
    IN  IF returns # None
        THEN LET return_size == LiteralExpression(to_string(size(returns[1])))
             IN  IF returns[1].kind = "Array"
                 THEN YulCase(selector,
                        << VariableDeclaration(return_ptr, FunctionCall(name, arguments)),
                           ExpressionStatement(FunctionCall(return,
                               <<IdentifierExpression(return_ptr), return_size>>)) >>)
                 ELSE YulCase(selector,
                        << VariableDeclaration(return_val, FunctionCall(name, arguments)),
                           ExpressionStatement(FunctionCall(mstore,
                               <<LiteralExpression(<<"0">>), IdentifierExpression(return_val)>>)),
                           ExpressionStatement(FunctionCall(return,
                               <<LiteralExpression(<<"0">>), return_size>>)) >>)
        ELSE YulCase(selector, << ExpressionStatement(FunctionCall(name, arguments)) >>)

\* case with one error for both failures
case_one_error(name, defs) ==
    IF name \in DOMAIN defs /\ defs[name].def = "Function"
    THEN Ok(function_call_case(name, defs[name].params, defs[name].returns))
    ELSE Err("No definition for name")

case(name, defs) ==
    IF name \in DOMAIN defs
    THEN IF defs[name].def = "Function"
         THEN Ok(function_call_case(name, defs[name].params, defs[name].returns))
         ELSE Err("Cannot create case from definition")
    ELSE Err("No definition for name")

\* a collect that goes through every result and keeps the last error
collect_last(results) ==
    IF \E i \in 1..Len(results) : results[i].tag = "Err"
    THEN results[CHOOSE i \in 1..Len(results) :
                    /\ results[i].tag = "Err"
                    /\ \A j \in (i + 1)..Len(results) : results[j].tag = "Ok"]
    ELSE Ok([i \in 1..Len(results) |-> results[i].val])

\* FromIterator for Result<Vec<T>, E>, which collect() uses: the values in
\* order, or the first error in order
collect(results) ==
    IF \E i \in 1..Len(results) : results[i].tag = "Err"
    THEN results[CHOOSE i \in 1..Len(results) :
                    /\ results[i].tag = "Err"
                    /\ \A j \in 1..(i - 1) : results[j].tag = "Ok"]
    ELSE Ok([i \in 1..Len(results) |-> results[i].val])

\* switch_of with a scrutinee of a whole word of calldata
switch_of_word(cases) ==
    IF cases.tag = "Err" THEN cases
    ELSE Ok(YulSwitch(FunctionCall(callval,
                          <<LiteralExpression(<<"0">>), LiteralExpression(<<"3", "2">>)>>),
                      cases.val))

\* the `?` after collect() returns the error; otherwise the switch is built
switch_of(cases) ==
    IF cases.tag = "Err" THEN cases
    ELSE Ok(YulSwitch(FunctionCall(callval,
                          <<LiteralExpression(<<"0">>), LiteralExpression(<<"4">>)>>),
                      cases.val))

switch(interface, defs) ==
    switch_of(collect(SubSeq([i \in 1..Len(interface) |-> case(interface[i], defs)],
                             1, Len(interface))))

(***************************************************************************)
(* The calls, and the state machine: one call, then its return value.      *)
(***************************************************************************)
Calls ==
    {[fn |-> "switch", interface |-> i, defs |-> d] : i \in Interfaces, d \in Tables}
      \cup {[fn |-> "case", name |-> n, defs |-> d] : n \in TableNames, d \in Tables}
      \cup {[fn |-> "function_call_case", name |-> n, params |-> p, returns |-> r] :
               n \in Names, p \in ParamLists, r \in Returns}
      \cup {[fn |-> "selector_literal", name |-> n, params |-> p] :
               n \in Names, p \in ParamLists}
      \cup {[fn |-> "abi_type_base", base |-> b] : b \in Bases}
      \cup {[fn |-> "abi_type", typ |-> t] : t \in Types}
      \cup {[fn |-> "parameter_expressions", params |-> p] : p \in ParamLists}

Pending == [tag |-> "Pending"]

\* the return value of a function that returns no Result
Returned(v) == [tag |-> "Returned", val |-> v]

Init == call \in Calls /\ result = Pending

Switch ==
    /\ call.fn = "switch" /\ result = Pending
    /\ result' = switch(call.interface, call.defs)
    /\ UNCHANGED call

Case ==
    /\ call.fn = "case" /\ result = Pending
    /\ result' = case(call.name, call.defs)
    /\ UNCHANGED call

FunctionCallCase ==
    /\ call.fn = "function_call_case" /\ result = Pending
    /\ result' = Returned(function_call_case(call.name, call.params, call.returns))
    /\ UNCHANGED call

SelectorLiteral ==
    /\ call.fn = "selector_literal" /\ result = Pending
    /\ result' = Returned(selector_literal(call.name, call.params))
    /\ UNCHANGED call

AbiTypeBase ==
    /\ call.fn = "abi_type_base" /\ result = Pending
    /\ result' = Returned(abi_type_base(call.base))
    /\ UNCHANGED call

AbiType ==
    /\ call.fn = "abi_type" /\ result = Pending
    /\ result' = Returned(abi_type(call.typ))
    /\ UNCHANGED call

ParameterExpressions ==
    /\ call.fn = "parameter_expressions" /\ result = Pending
    /\ result' = Returned(parameter_expressions(call.params))
    /\ UNCHANGED call

Next ==
    \/ Switch
    \/ Case
    \/ FunctionCallCase
    \/ SelectorLiteral
    \/ AbiTypeBase
    \/ AbiType
    \/ ParameterExpressions

Spec == Init /\ [][Next]_vars

(***************************************************************************)
(* The properties.  Each is stated on the state after the call returned,   *)
(* from the arguments of the call and what the specification says the      *)
(* return value is.                                                        *)
(***************************************************************************)
\* the call has returned
Done(fn) == call.fn = fn /\ result # Pending

\* the canonical name of a type, as the specification words it
ExpectedBaseName(base) ==
    CASE base = "U256" -> <<"u", "i", "n", "t", "2", "5", "6">>
      [] base = "Address" -> <<"a", "d", "d", "r", "e", "s", "s">>
      [] base = "Byte" -> <<"b", "y", "t", "e">>

ExpectedTypeName(typ) ==
    IF typ.kind = "Base" THEN ExpectedBaseName(typ.base)
    ELSE IF typ.inner = "Byte"
         THEN <<"b", "y", "t", "e", "s">> \o to_string(typ.dimension)
         ELSE ExpectedBaseName(typ.inner) \o <<"[">> \o to_string(typ.dimension) \o <<"]">>

\* type1,type2,... for the first n parameters: no spaces, no trailing comma
RECURSIVE ExpectedTypeList(_, _)
ExpectedTypeList(params, n) ==
    IF n = 0 THEN <<>>
    ELSE IF n = 1 THEN ExpectedTypeName(params[1])
    ELSE ExpectedTypeList(params, n - 1) \o <<",">> \o ExpectedTypeName(params[n])

\* name(type1,type2,...)
ExpectedSignature(name, params) ==
    name \o <<"(">> \o ExpectedTypeList(params, Len(params)) \o <<")">>

\* the byte width of a type, as the specification words it
ExpectedWidth(typ) ==
    IF typ.kind = "Base"
    THEN (IF typ.base = "Byte" THEN 1 ELSE 32)
    ELSE typ.dimension * (IF typ.inner = "Byte" THEN 1 ELSE 32)

\* the calldata offset of parameter i: 4, plus the widths of those before it
RECURSIVE ExpectedOffset(_, _)
ExpectedOffset(params, i) ==
    IF i = 1 THEN 4
    ELSE ExpectedOffset(params, i - 1) + ExpectedWidth(params[i - 1])

\* the accessor of parameter i
ExpectedAccessor(params, i) ==
    FunctionCall(IF params[i].kind = "Base" THEN callval ELSE calltomem,
                 << LiteralExpression(to_string(ExpectedOffset(params, i))),
                    LiteralExpression(to_string(ExpectedWidth(params[i]))) >>)

\* the call of the function with its arguments loaded in declaration order
ExpectedCall(name, params) ==
    FunctionCall(name, [i \in 1..Len(params) |-> ExpectedAccessor(params, i)])

\* the literal of the selector of a signature
ExpectedSelector(name, params) ==
    Literal(<<"0", "x">> \o hex_encode(selector_bytes(ExpectedSignature(name, params))))

\* the statement is a call of the Yul function id
IsCallOf(stmt, id) ==
    /\ stmt.stmt = "Expression"
    /\ stmt.expression.expr = "FunctionCall"
    /\ stmt.expression.identifier = id

\* every entry of the interface is bound to a function
AllFunctions(interface, defs) ==
    \A i \in 1..Len(interface) :
        interface[i] \in DOMAIN defs /\ defs[interface[i]].def = "Function"

\* entry i of the interface cannot be made a case
Fails(interface, defs, i) ==
    interface[i] \notin DOMAIN defs \/ defs[interface[i]].def # "Function"

\* C1: when every interface entry is bound to a function, switch returns Ok
\* with a switch statement whose scrutinee is callval(0, 4) and whose cases
\* are, one per entry and in interface order, the case of that entry; for the
\* interface [foo], foo taking and returning nothing, that is the single case
\* of the selector of foo() with the body foo().
C1_SwitchOneCasePerEntry ==
    (Done("switch") /\ AllFunctions(call.interface, call.defs)) =>
        /\ result.tag = "Ok"
        /\ result.val.stmt = "Switch"
        /\ result.val.expression =
               FunctionCall(callval, <<LiteralExpression(<<"0">>), LiteralExpression(<<"4">>)>>)
        /\ Len(result.val.cases) = Len(call.interface)
        /\ \A i \in 1..Len(call.interface) :
               LET def == call.defs[call.interface[i]]
               IN  /\ Ok(result.val.cases[i]) = case(call.interface[i], call.defs)
                   /\ result.val.cases[i].literal =
                          ExpectedSelector(call.interface[i], def.params)
                   /\ \E k \in 1..Len(result.val.cases[i].block) :
                          result.val.cases[i].block[k].expression =
                              ExpectedCall(call.interface[i], def.params)
        /\ (call.interface = <<foo>> /\ call.defs[foo] = Function(<<>>, None)) =>
               result.val.cases =
                   << YulCase(Literal(<<"0", "x", "c", "2", "9", "8", "5", "5", "7", "8">>),
                              <<ExpressionStatement(FunctionCall(foo, <<>>))>>) >>

C1_Witness ==
    /\ Done("switch") /\ AllFunctions(call.interface, call.defs)
    /\ Len(call.interface) = 2
    /\ call.interface[1] # call.interface[2]
    /\ call.defs[call.interface[1]] # call.defs[call.interface[2]]
    /\ result.tag = "Ok"
    /\ Len(result.val.cases) = 2

C3_DuplicateSelectorRejected ==
    Done("switch") =>
        /\ (\E i, j \in 1..Len(call.interface) :
               /\ i < j
               /\ ~Fails(call.interface, call.defs, i)
               /\ ~Fails(call.interface, call.defs, j)
               /\ ExpectedSelector(call.interface[i], call.defs[call.interface[i]].params)
                    = ExpectedSelector(call.interface[j], call.defs[call.interface[j]].params))
             => result.tag = "Err"
        /\ result.tag = "Ok" =>
               \A i, j \in 1..Len(result.val.cases) :
                   i # j => result.val.cases[i].literal # result.val.cases[j].literal

\* C4: case fails with the unresolved-name error when the name has no
\* definition, with the non-callable error when the name is bound to a
\* definition that is no function, the two errors differ, and it returns Ok
\* with the case of the function when the name is bound to a function.
C4_CaseErrorKinds ==
    Done("case") =>
        /\ call.name \notin DOMAIN call.defs =>
               /\ result = Err("No definition for name")
               /\ result # Err("Cannot create case from definition")
        /\ (call.name \in DOMAIN call.defs /\ call.defs[call.name].def # "Function") =>
               /\ result = Err("Cannot create case from definition")
               /\ result # Err("No definition for name")
        /\ (call.name \in DOMAIN call.defs /\ call.defs[call.name].def = "Function") =>
               /\ result.tag = "Ok"
               /\ result.val.block # <<>>
               /\ result.val.literal =
                      ExpectedSelector(call.name, call.defs[call.name].params)

C4_Witness ==
    /\ Done("case")
    /\ call.name \in DOMAIN call.defs
    /\ call.defs[call.name].def = "Event"
    /\ result.tag = "Err"

\* C5: when an interface entry cannot be made a case, switch returns no
\* switch statement but the error of the first such entry in interface order,
\* whatever the entries after it are.
C5_SwitchFirstError ==
    (Done("switch") /\ \E i \in 1..Len(call.interface) : Fails(call.interface, call.defs, i)) =>
        LET first == CHOOSE i \in 1..Len(call.interface) :
                         /\ Fails(call.interface, call.defs, i)
                         /\ \A j \in 1..(i - 1) : ~Fails(call.interface, call.defs, j)
        IN  /\ result.tag = "Err"
            /\ result = (IF call.interface[first] \in DOMAIN call.defs
                         THEN Err("Cannot create case from definition")
                         ELSE Err("No definition for name"))

C5_Witness ==
    /\ Done("switch")
    /\ Len(call.interface) = 2
    /\ call.interface[1] \notin DOMAIN call.defs
    /\ call.interface[2] \in DOMAIN call.defs
    /\ call.defs[call.interface[2]].def = "Map"
    /\ result = Err("No definition for name")

C8_NoReturn ==
    (Done("function_call_case") /\ call.returns = None) =>
        /\ result.val.block = <<ExpressionStatement(ExpectedCall(call.name, call.params))>>
        /\ \A k \in 1..Len(result.val.block) :
               /\ ~IsCallOf(result.val.block[k], return)
               /\ ~IsCallOf(result.val.block[k], mstore)
               /\ result.val.block[k].stmt # "VariableDeclaration"

C8_Witness ==
    /\ Done("function_call_case")
    /\ call.returns = None
    /\ Len(call.params) = 2
    /\ call.params[1].kind = "Array"
    /\ Len(result.val.block) = 1

\* C9: the selector is the hash of the canonical signature name(type1,...):
\* the types comma separated, without spaces or a trailing comma, rendered
\* uint256, address, byte, bytesN for N bytes and S[N] for N elements of
\* scalar S (bytes32, uint256[4]); the return type has no part in it.
C9_CanonicalSignature ==
    /\ Done("abi_type") =>
           /\ result.val = ExpectedTypeName(call.typ)
           /\ call.typ = ArrayType(32, "Byte") =>
                  result.val = <<"b", "y", "t", "e", "s", "3", "2">>
           /\ call.typ = ArrayType(4, "U256") =>
                  result.val = <<"u", "i", "n", "t", "2", "5", "6", "[", "4", "]">>
    /\ Done("abi_type_base") => result.val = ExpectedBaseName(call.base)
    /\ (Done("selector_literal") \/ Done("function_call_case")) =>
           /\ signature(call.name, call.params) = ExpectedSignature(call.name, call.params)
           /\ (IF call.fn = "selector_literal" THEN result.val ELSE result.val.literal) =
                  ExpectedSelector(call.name, call.params)

C9_Witness ==
    /\ Done("function_call_case")
    /\ call.returns # None
    /\ call.params = <<ArrayType(32, "Byte"), ArrayType(4, "U256")>>
    /\ signature(call.name, call.params) =
           call.name \o <<"(", "b", "y", "t", "e", "s", "3", "2", ",",
                          "u", "i", "n", "t", "2", "5", "6", "[", "4", "]", ")">>

\* C10: selector_literal returns the literal 0x followed by exactly eight
\* lower-case hexadecimal digits, the first four bytes of the Keccak-256
\* digest of the signature, most significant first: 0x0423a132 for
\* bar(uint256).
C10_SelectorLiteral ==
    Done("selector_literal") =>
        LET lit == result.val.literal
        IN  /\ Len(lit) = 10
            /\ lit[1] = "0" /\ lit[2] = "x"
            /\ \A i \in 3..10 : \E k \in 1..16 : HexDigit[k] = lit[i]
            /\ (call.name = bar /\ call.params = <<BaseType("U256")>>) =>
                   lit = <<"0", "x", "0", "4", "2", "3", "a", "1", "3", "2">>
            /\ (call.name = foo /\ call.params = <<>>) =>
                   lit = <<"0", "x", "c", "2", "9", "8", "5", "5", "7", "8">>
            /\ (call.name = foo /\ call.params = <<BaseType("U256")>>) =>
                   lit = <<"0", "x", "2", "f", "b", "e", "b", "d", "3", "8">>

C10_Witness ==
    /\ Done("selector_literal")
    /\ call.name = bar
    /\ call.params = <<BaseType("U256")>>
    /\ result.val = Literal(<<"0", "x", "0", "4", "2", "3", "a", "1", "3", "2">>)

=============================================================================
